---- MODULE Spec2Model ----
(***************************************************************************)
(* A model of the expression interpreter of main.py: tokenizer, infix to   *)
(* postfix converter, postfix evaluator, the per-line processor            *)
(* process_code and the session loop of on_process.                        *)
(*                                                                         *)
(* A Python str is a sequence of one-character strings.  A Python value is *)
(* a record: an int n, None, or a float.  An int is an integer of TLC: the *)
(* texts of the model keep every int far below 2^31.  A float is a double: *)
(* nan, an infinity, or (-1)^neg * m * 2^e with m a natural number of any  *)
(* size; every operation on floats rounds the exact result to the nearest  *)
(* double, ties to even, with the range and the subnormals of the IEEE 754 *)
(* binary64 format, as a / b, a % b and the arithmetic of apply_op do once *)
(* an operand is a float.                                                  *)
(* A raised exception is the field exc of the record an operator returns;  *)
(* the KeyError handlers of process_code have no raiser (evaluate_postfix  *)
(* looks a token up only after `token in variables`) and are left out.     *)
(*                                                                         *)
(* on_process is followed position by position: OnProcess (fresh           *)
(* containers), one LoopLine per line of the text, Finish (the listing).   *)
(* The lines of the text are drawn as the loop reaches them.  pre holds    *)
(* the containers as they were before the line processed last, prevBound   *)
(* the names bound in earlier runs; both are history, not program state.   *)
(*                                                                         *)
(* SpecExpr applies infix_to_postfix and evaluate_postfix to well-formed   *)
(* expressions built with the value their structure gives them.            *)
(***************************************************************************)
EXTENDS Integers, Sequences, FiniteSets, TLC

VARIABLES pc, run, lines, variables, errors, used_vars, output_area, report,
          pre, prevBound, tree, stage, conv, evald

vars == <<pc, run, lines, variables, errors, used_vars, output_area, report,
          pre, prevBound, tree, stage, conv, evald>>

(* ------------------------------ bounds -------------------------------- *)

MaxLines == 2
MaxRuns == 2
MaxOps == 2

(* --------------------------- characters ------------------------------- *)

Digits == {"0", "1", "2", "3", "4", "5", "6", "7", "8", "9"}
Letters == {"x", "y", "z"}
OpChars == {"+", "-", "*", "/", "(", ")", "%"}
Spaces == {" "}

DigitVal(c) ==
  CASE c = "0" -> 0 [] c = "1" -> 1 [] c = "2" -> 2 [] c = "3" -> 3
    [] c = "4" -> 4 [] c = "5" -> 5 [] c = "6" -> 6 [] c = "7" -> 7
    [] c = "8" -> 8 [] c = "9" -> 9

IsDigitStr(s) == Len(s) > 0 /\ \A k \in 1..Len(s) : s[k] \in Digits
IsAlnumStr(s) == Len(s) > 0 /\ \A k \in 1..Len(s) : s[k] \in Digits \cup Letters

RECURSIVE ParseInt(_)
ParseInt(s) ==
  IF Len(s) = 0 THEN 0
  ELSE 10 * ParseInt(SubSeq(s, 1, Len(s) - 1)) + DigitVal(s[Len(s)])

RECURSIVE LStrip(_)
LStrip(s) ==
  IF Len(s) > 0 /\ s[1] \in Spaces THEN LStrip(Tail(s)) ELSE s

RECURSIVE RStrip(_)
RStrip(s) ==
  IF Len(s) > 0 /\ s[Len(s)] \in Spaces
  THEN RStrip(SubSeq(s, 1, Len(s) - 1)) ELSE s

Strip(s) == RStrip(LStrip(s))

RECURSIVE SplitFrom(_, _, _, _)
SplitFrom(s, sep, k, cur) ==
  IF k > Len(s) THEN <<cur>>
  ELSE IF s[k] = sep THEN <<cur>> \o SplitFrom(s, sep, k + 1, <<>>)
  ELSE SplitFrom(s, sep, k + 1, Append(cur, s[k]))

Split(s, sep) == SplitFrom(s, sep, 1, <<>>)

Contains(s, c) == \E k \in 1..Len(s) : s[k] = c

(* ------------------------------ values -------------------------------- *)

Abs(n) == IF n < 0 THEN -n ELSE n
Max(a, b) == IF a >= b THEN a ELSE b
Min(a, b) == IF a <= b THEN a ELSE b

\* a natural number of any size is the sequence of its digits in base 2^15,
\* lowest first, the highest not 0
Base == 2^15

RECURSIVE ToNat(_)
ToNat(n) == IF n = 0 THEN <<>> ELSE <<n % Base>> \o ToNat(n \div Base)

RECURSIVE Trim(_)
Trim(a) ==
  IF Len(a) > 0 /\ a[Len(a)] = 0 THEN Trim(SubSeq(a, 1, Len(a) - 1)) ELSE a

Digit(a, i) == IF i >= 1 /\ i <= Len(a) THEN a[i] ELSE 0

RECURSIVE AddFrom(_, _, _, _)
AddFrom(a, b, i, c) ==
  IF i > Len(a) /\ i > Len(b) THEN (IF c = 0 THEN <<>> ELSE <<c>>)
  ELSE LET s == Digit(a, i) + Digit(b, i) + c
       IN <<s % Base>> \o AddFrom(a, b, i + 1, s \div Base)

AddNat(a, b) == AddFrom(a, b, 1, 0)

RECURSIVE SubFrom(_, _, _, _)
SubFrom(a, b, i, br) ==
  IF i > Len(a) THEN <<>>
  ELSE LET d == Digit(a, i) - Digit(b, i) - br
       IN <<IF d < 0 THEN d + Base ELSE d>>
          \o SubFrom(a, b, i + 1, IF d < 0 THEN 1 ELSE 0)

\* a - b for a >= b
SubNat(a, b) == Trim(SubFrom(a, b, 1, 0))

RECURSIVE CmpFrom(_, _, _)
CmpFrom(a, b, i) ==
  IF i = 0 THEN 0
  ELSE IF a[i] > b[i] THEN 1
  ELSE IF a[i] < b[i] THEN -1
  ELSE CmpFrom(a, b, i - 1)

CmpNat(a, b) ==
  IF Len(a) > Len(b) THEN 1
  ELSE IF Len(a) < Len(b) THEN -1
  ELSE CmpFrom(a, b, Len(a))

\* a * d for a digit d, from the digit i of a up, c carried in
RECURSIVE MulFrom(_, _, _, _)
MulFrom(a, d, i, c) ==
  IF i > Len(a) THEN (IF c = 0 THEN <<>> ELSE <<c>>)
  ELSE LET p == a[i] * d + c
       IN <<p % Base>> \o MulFrom(a, d, i + 1, p \div Base)

MulDigit(a, d) == Trim(MulFrom(a, d, 1, 0))

\* a * Base^k
ShiftDigits(a, k) == IF a = <<>> THEN <<>> ELSE [i \in 1..k |-> 0] \o a

RECURSIVE MulNat(_, _)
MulNat(a, b) ==
  IF a = <<>> \/ b = <<>> THEN <<>>
  ELSE AddNat(MulDigit(a, b[1]), ShiftDigits(MulNat(a, Tail(b)), 1))

\* a * 2^k
ShiftL(a, k) ==
  LET n == k \div 15
      s == k % 15
  IN Trim([i \in 1..(Len(a) + n + 1) |->
             ((Digit(a, i - n) * 2^s) % Base)
             + (Digit(a, i - n - 1) \div 2^(15 - s))])

\* a \div 2^k
ShiftR(a, k) ==
  LET n == k \div 15
      s == k % 15
  IN IF n >= Len(a) THEN <<>>
     ELSE Trim([i \in 1..(Len(a) - n) |->
                  (Digit(a, i + n) \div 2^s)
                  + ((Digit(a, i + n + 1) % 2^s) * 2^(15 - s))])

\* the number of binary digits of a digit d, and of a
RECURSIVE BitsOf(_)
BitsOf(d) == IF d = 0 THEN 0 ELSE 1 + BitsOf(d \div 2)

BitLen(a) == IF a = <<>> THEN 0 ELSE 15 * (Len(a) - 1) + BitsOf(a[Len(a)])

\* the binary digit i of a, the lowest being digit 1
Bit(a, i) ==
  IF i < 1 THEN 0 ELSE (Digit(a, (i - 1) \div 15 + 1) \div 2^((i - 1) % 15)) % 2

\* a % 2^k # 0
AnyLow(a, k) ==
  k > 0 /\ \E j \in 1..Len(a) :
             \/ j <= k \div 15 /\ a[j] # 0
             \/ j = k \div 15 + 1 /\ a[j] % 2^(k % 15) # 0

\* the number of binary zeros a ends with, a not 0
RECURSIVE LowZerosOf(_)
LowZerosOf(d) == IF d % 2 = 1 THEN 0 ELSE 1 + LowZerosOf(d \div 2)

LowZeros(a) ==
  LET j == CHOOSE i \in 1..Len(a) : a[i] # 0 /\ \A h \in 1..(i - 1) : a[h] = 0
  IN 15 * (j - 1) + LowZerosOf(a[j])

\* the digit r \div b of a quotient, for r < b * Base: the estimate from the
\* highest digits is never too small, and is lowered until it fits
RECURSIVE Lower(_, _, _)
Lower(r, b, q) ==
  IF CmpNat(MulDigit(b, q), r) > 0 THEN Lower(r, b, q - 1) ELSE q

QuotDigit(r, b) ==
  Lower(r, b, Min(Base - 1,
                  (Digit(r, Len(b) + 1) * Base + Digit(r, Len(b))) \div b[Len(b)]))

\* the digit d of the quotient taken out of the remainder r
TakeDigit(r, q, b, d) == [q |-> <<d>> \o q, r |-> SubNat(r, MulDigit(b, d))]

\* one step of the long division by b: h the quotient and the remainder of
\* the digits above, x the next digit down
DivStep(h, x, b) ==
  IF h.r = <<>> /\ x = 0 THEN [q |-> <<0>> \o h.q, r |-> <<>>]
  ELSE TakeDigit(<<x>> \o h.r, h.q, b, QuotDigit(<<x>> \o h.r, b))

\* the long division of the digits i and up of a by b
RECURSIVE DivFrom(_, _, _)
DivFrom(a, b, i) ==
  IF i > Len(a) THEN [q |-> <<>>, r |-> <<>>]
  ELSE DivStep(DivFrom(a, b, i + 1), a[i], b)

\* the quotient and the remainder x of a division scaled by 2^s
Unscaled(x, s) == [q |-> Trim(x.q), r |-> ShiftR(x.r, s)]

DivScaled(a, b, s) == Unscaled(DivFrom(ShiftL(a, s), ShiftL(b, s), 1), s)

\* a \div b and a % b, b not 0; b is first scaled to a highest digit of at
\* least Base / 2, which keeps the estimates within 2 of the digit
DivMod(a, b) == DivScaled(a, b, 15 - BitsOf(b[Len(b)]))

\* Python values: an int n; a float, which is a double: nan, an infinity,
\* or (-1)^neg * m * 2^e with m odd or zero; None
IntVal(n) ==
  [t |-> "int", n |-> n, k |-> "fin", neg |-> FALSE, m |-> <<>>, e |-> 0]
NoneVal ==
  [t |-> "none", n |-> 0, k |-> "fin", neg |-> FALSE, m |-> <<>>, e |-> 0]
Finite(neg, m, e) ==
  [t |-> "float", n |-> 0, k |-> "fin", neg |-> neg, m |-> m, e |-> e]
Zero(neg) == Finite(neg, <<>>, 0)
Inf(neg) ==
  [t |-> "float", n |-> 0, k |-> "inf", neg |-> neg, m |-> <<>>, e |-> 0]
NaN ==
  [t |-> "float", n |-> 0, k |-> "nan", neg |-> FALSE, m |-> <<>>, e |-> 0]

\* v == 0
IsZero(v) ==
  \/ v.t = "int" /\ v.n = 0
  \/ v.t = "float" /\ v.k = "fin" /\ v.m = <<>>

\* the double m * 2^e once m has at most 53 binary digits and e is at least
\* -1074: an infinity past the largest double
Normal(neg, m, e) ==
  IF m = <<>> THEN Zero(neg)
  ELSE IF BitLen(m) + e > 1024 THEN Inf(neg)
  ELSE Finite(neg, ShiftR(m, LowZeros(m)), e + LowZeros(m))

\* kept, or the number after it: half, the highest binary digit left out is
\* 1; rest, something lower that is left out is not 0
HalfEven(kept, half, rest) ==
  IF half /\ (rest \/ Bit(kept, 1) = 1) THEN AddNat(kept, <<1>>) ELSE kept

\* m without its lowest drop binary digits, rounded to nearest, ties to even
Nearest(m, drop, sticky) ==
  IF drop <= 0 THEN m
  ELSE HalfEven(ShiftR(m, drop), Bit(m, drop) = 1,
                sticky \/ AnyLow(m, drop - 1))

Rounded(neg, m, e, sticky, drop) ==
  Normal(neg, Nearest(m, drop, sticky), e + Max(drop, 0))

\* the double nearest to x, ties to even, for x = m * 2^e or, when sticky,
\* for an x strictly between m * 2^e and (m + 1) * 2^e
FloatVal(neg, m, e, sticky) ==
  Rounded(neg, m, e, sticky, Max(BitLen(m) - 53, (-1074) - e))

\* float(v)
ToFloat(v) ==
  IF v.t = "float" THEN v
  ELSE FloatVal(v.n < 0, ToNat(Abs(v.n)), 0, FALSE)

FNeg(b) == IF b.k = "nan" THEN b ELSE [b EXCEPT !.neg = ~b.neg]

\* the distance between x and y
Diff(x, y) == IF CmpNat(x, y) >= 0 THEN SubNat(x, y) ELSE SubNat(y, x)

\* the sign of (-1)^an * x + (-1)^bn * y, c comparing x with y: an exact
\* zero is positive
SignOf(an, bn, c) ==
  IF an = bn \/ c > 0 THEN an ELSE IF c < 0 THEN bn ELSE FALSE

\* the double nearest to ((-1)^an * x + (-1)^bn * y) * 2^e
Signed(an, x, bn, y, e, sticky) ==
  FloatVal(SignOf(an, bn, CmpNat(x, y)),
           IF an = bn THEN AddNat(x, y) ELSE Diff(x, y), e, sticky)

\* a + b for b below one unit of a written with s more binary digits: b
\* only tells on which side of a the sum lies
Far(a, b, s) ==
  Signed(a.neg, ShiftL(a.m, s), b.neg,
         IF a.neg = b.neg THEN <<>> ELSE <<1>>, a.e - s, TRUE)

\* a + b with both written in units of 2^e
Near(a, b, e) ==
  Signed(a.neg, ShiftL(a.m, a.e - e), b.neg, ShiftL(b.m, b.e - e), e, FALSE)

AddAt(a, b, s) ==
  IF b.e + BitLen(b.m) <= a.e - s THEN Far(a, b, s)
  ELSE Near(a, b, Min(a.e, b.e))

\* a + b of two finite doubles that are not zero, a the one of the larger
\* binary order
AddOrdered(a, b) == AddAt(a, b, Max(2, 55 - BitLen(a.m)))

\* a + b of two finite doubles
AddFinite(a, b) ==
  IF a.m = <<>> /\ b.m = <<>> THEN Zero(a.neg /\ b.neg)
  ELSE IF a.m = <<>> THEN b
  ELSE IF b.m = <<>> THEN a
  ELSE AddOrdered(IF a.e + BitLen(a.m) >= b.e + BitLen(b.m) THEN a ELSE b,
                  IF a.e + BitLen(a.m) >= b.e + BitLen(b.m) THEN b ELSE a)

FAdd(a, b) ==
  IF a.k = "nan" \/ b.k = "nan" THEN NaN
  ELSE IF a.k = "inf" THEN (IF b.k = "inf" /\ a.neg # b.neg THEN NaN ELSE a)
  ELSE IF b.k = "inf" THEN b
  ELSE AddFinite(a, b)

FMul(a, b) ==
  IF a.k = "nan" \/ b.k = "nan" THEN NaN
  ELSE IF a.k = "inf" \/ b.k = "inf" THEN
    (IF IsZero(a) \/ IsZero(b) THEN NaN ELSE Inf(a.neg # b.neg))
  ELSE FloatVal(a.neg # b.neg, MulNat(a.m, b.m), a.e + b.e, FALSE)

\* the double nearest to the number of quotient d.q * 2^e, exact when the
\* remainder d.r is 0
RoundDiv(neg, d, e) == FloatVal(neg, d.q, e, d.r # <<>>)

QuotientTo(neg, ma, mb, e, s) ==
  RoundDiv(neg, DivMod(ShiftL(ma, s), mb), e - s)

\* the double nearest to (ma * 2^ea) / (mb * 2^eb), mb not zero: the
\* quotient is taken to 55 binary digits or more
Quotient(neg, ma, ea, mb, eb) ==
  QuotientTo(neg, ma, mb, ea - eb, Max(0, 55 + BitLen(mb) - BitLen(ma)))

\* a / b, b not zero
FDiv(a, b) ==
  IF a.k = "nan" \/ b.k = "nan" THEN NaN
  ELSE IF a.k = "inf" THEN (IF b.k = "inf" THEN NaN ELSE Inf(a.neg # b.neg))
  ELSE IF b.k = "inf" THEN Zero(a.neg # b.neg)
  ELSE Quotient(a.neg # b.neg, a.m, a.e, b.m, b.e)

\* 2^k modulo y from h, which is 2^(k \div 2) modulo y
PowStep(h, k, y) ==
  IF h = <<>> THEN <<>>
  ELSE DivMod(MulDigit(MulNat(h, h), IF k % 2 = 0 THEN 1 ELSE 2), y).r

\* 2^k modulo y, by repeated squaring
RECURSIVE Pow2Mod(_, _)
Pow2Mod(k, y) ==
  IF k = 0 THEN (IF y = <<1>> THEN <<>> ELSE <<1>>)
  ELSE PowStep(Pow2Mod(k \div 2, y), k, y)

\* fmod(a, b) of two finite doubles, b not zero: exact, with the sign of a
FmodFinite(a, b) ==
  IF a.m = <<>> \/ a.e + BitLen(a.m) < b.e + BitLen(b.m) THEN a
  ELSE Normal(a.neg,
              DivMod(IF a.e >= b.e THEN MulNat(a.m, Pow2Mod(a.e - b.e, b.m))
                     ELSE a.m,
                     IF a.e >= b.e THEN b.m ELSE ShiftL(b.m, b.e - a.e)).r,
              Min(a.e, b.e))

\* fmod moved to the sign of b
SignFix(mod, b) ==
  IF IsZero(mod) THEN Zero(b.neg)
  ELSE IF b.neg # mod.neg THEN FAdd(mod, b)
  ELSE mod

\* a % b, b not zero
FMod(a, b) ==
  IF a.k = "nan" \/ b.k = "nan" \/ a.k = "inf" THEN NaN
  ELSE SignFix(IF b.k = "inf" THEN a ELSE FmodFinite(a, b), b)

FSub(a, b) == FAdd(a, FNeg(b))

\* a % b of two ints, b not zero: the result has the sign of b
IntMod(a, b) ==
  LET r == Abs(a) % Abs(b)
  IN IF r = 0 THEN 0
     ELSE IF (a < 0) = (b < 0) THEN (IF b < 0 THEN -r ELSE r)
     ELSE (IF b < 0 THEN r - Abs(b) ELSE Abs(b) - r)

TypeName(v) ==
  CASE v.t = "int" -> "int" [] v.t = "float" -> "float"
    [] v.t = "none" -> "NoneType"

\* the text of a message: a fixed part and the part formatted into it
Msg(text, arg) == [text |-> text, arg |-> arg]
NoMsg == Msg("", <<>>)

Returned(v) == [exc |-> "none", msg |-> NoMsg, v |-> v]
Raised(e, m) == [exc |-> e, msg |-> m, v |-> NoneVal]

\* a + b, a - b, ... with an operand that is None
UnsupportedOperand(a, b, op) ==
  Raised("TypeError",
         Msg("unsupported operand type(s) for", <<op, TypeName(a), TypeName(b)>>))

(* ------------------------ precedence, apply_op ------------------------ *)

PrecedenceFlat(op) ==
  IF op \in {<<"+">>, <<"-">>, <<"*">>, <<"/">>, <<"%">>} THEN 1 ELSE 0

precedence(op) ==
  IF op = <<"+">> \/ op = <<"-">> THEN 1
  ELSE IF op = <<"*">> \/ op = <<"/">> \/ op = <<"%">> THEN 2
  ELSE 0

\* the result of a op b: i when both are ints, f when one is a float
Number(a, b, op, i, f) ==
  IF a.t = "none" \/ b.t = "none" THEN UnsupportedOperand(a, b, op)
  ELSE IF a.t = "int" /\ b.t = "int" THEN Returned(i)
  ELSE Returned(f)

apply_op(a, b, op) ==
  IF op = <<"+">> THEN
    Number(a, b, "+", IntVal(a.n + b.n), FAdd(ToFloat(a), ToFloat(b)))
  ELSE IF op = <<"-">> THEN
    Number(a, b, "-", IntVal(a.n - b.n), FSub(ToFloat(a), ToFloat(b)))
  ELSE IF op = <<"*">> THEN
    Number(a, b, "*", IntVal(a.n * b.n), FMul(ToFloat(a), ToFloat(b)))
  ELSE IF op = <<"/">> THEN
    IF IsZero(b) THEN Raised("ZeroDivisionError", NoMsg)
    ELSE Number(a, b, "/",
                Quotient((a.n < 0) # (b.n < 0),
                         ToNat(Abs(a.n)), 0, ToNat(Abs(b.n)), 0),
                FDiv(ToFloat(a), ToFloat(b)))
  ELSE IF op = <<"%">> THEN
    IF IsZero(b) THEN Raised("ZeroDivisionError", NoMsg)
    ELSE Number(a, b, "%", IntVal(IntMod(a.n, b.n)),
                FMod(ToFloat(a), ToFloat(b)))
  ELSE Returned(NoneVal)

(* ----------------------------- tokenize ------------------------------- *)

RECURSIVE ScanDigits(_, _)
ScanDigits(expression, i) ==
  IF i <= Len(expression) /\ expression[i] \in Digits
  THEN ScanDigits(expression, i + 1) ELSE i

RECURSIVE ScanAlnum(_, _)
ScanAlnum(expression, i) ==
  IF i <= Len(expression) /\ expression[i] \in Digits \cup Letters
  THEN ScanAlnum(expression, i + 1) ELSE i

RECURSIVE TokenizeFrom(_, _, _)
TokenizeFrom(expression, i, tokens) ==
  IF i > Len(expression) THEN tokens
  ELSE IF expression[i] \in Digits THEN
    LET j == ScanDigits(expression, i)
    IN TokenizeFrom(expression, j, Append(tokens, SubSeq(expression, i, j - 1)))
  ELSE IF expression[i] \in Letters THEN
    LET j == ScanAlnum(expression, i)
    IN TokenizeFrom(expression, j, Append(tokens, SubSeq(expression, i, j - 1)))
  ELSE IF expression[i] \in OpChars THEN
    TokenizeFrom(expression, i + 1, Append(tokens, <<expression[i]>>))
  ELSE TokenizeFrom(expression, i + 1, tokens)

tokenize(expression) == TokenizeFrom(expression, 1, <<>>)

(* -------------------------- infix_to_postfix -------------------------- *)

Top(stack) == stack[Len(stack)]
Pop(stack) == SubSeq(stack, 1, Len(stack) - 1)

IndexError == Raised("IndexError", Msg("pop from empty list", <<>>))

\* while ops_stack and ops_stack[-1] != '(': output.append(ops_stack.pop())
RECURSIVE PopToParen(_, _)
PopToParen(output, ops_stack) ==
  IF Len(ops_stack) > 0 /\ Top(ops_stack) # <<"(">>
  THEN PopToParen(Append(output, Top(ops_stack)), Pop(ops_stack))
  ELSE [output |-> output, ops_stack |-> ops_stack]

\* while ops_stack and precedence(ops_stack[-1]) >= precedence(token): ...
RECURSIVE PopHigher(_, _, _)
PopHigher(output, ops_stack, token) ==
  IF Len(ops_stack) > 0 /\ precedence(Top(ops_stack)) >= precedence(token)
  THEN PopHigher(Append(output, Top(ops_stack)), Pop(ops_stack), token)
  ELSE [output |-> output, ops_stack |-> ops_stack]

\* while ops_stack: output.append(ops_stack.pop())
RECURSIVE PopAll(_, _)
PopAll(output, ops_stack) ==
  IF Len(ops_stack) > 0
  THEN PopAll(Append(output, Top(ops_stack)), Pop(ops_stack))
  ELSE output

\* ops_stack.pop()  # Pop the '(' from the stack
DiscardParenGuarded(st) ==
  [exc |-> "none",
   ops_stack |-> IF Len(st.ops_stack) > 0 THEN Pop(st.ops_stack)
                 ELSE st.ops_stack]

DiscardParen(st) ==
  IF Len(st.ops_stack) = 0 THEN [exc |-> "IndexError", ops_stack |-> <<>>]
  ELSE [exc |-> "none", ops_stack |-> Pop(st.ops_stack)]

RECURSIVE ConvertFrom(_, _, _, _)
ConvertFrom(tokens, k, output, ops_stack) ==
  IF k > Len(tokens) THEN
    [exc |-> "none", msg |-> NoMsg, out |-> PopAll(output, ops_stack)]
  ELSE LET token == tokens[k] IN
    IF IsAlnumStr(token) THEN
      ConvertFrom(tokens, k + 1, Append(output, token), ops_stack)
    ELSE IF token = <<"(">> THEN
      ConvertFrom(tokens, k + 1, output, Append(ops_stack, token))
    ELSE IF token = <<")">> THEN
      LET st == PopToParen(output, ops_stack)
          dp == DiscardParen(st)
      IN IF dp.exc # "none"
         THEN [exc |-> dp.exc, msg |-> IndexError.msg, out |-> <<>>]
         ELSE ConvertFrom(tokens, k + 1, st.output, dp.ops_stack)
    ELSE
      LET st == PopHigher(output, ops_stack, token)
      IN ConvertFrom(tokens, k + 1, st.output, Append(st.ops_stack, token))

infix_to_postfix(expression) ==
  ConvertFrom(tokenize(expression), 1, <<>>, <<>>)

(* -------------------------- evaluate_postfix -------------------------- *)

\* return stack.pop()
FinalPop(stack) ==
  IF Len(stack) = 0 THEN IndexError ELSE Returned(Top(stack))

RECURSIVE EvalFrom(_, _, _, _)

\* stack.append(r) for the result r of apply_op on the two values popped
PushResult(exp, k, vs, stack, r) ==
  IF r.exc # "none" THEN r
  ELSE EvalFrom(exp, k + 1, vs,
                Append(SubSeq(stack, 1, Len(stack) - 2), r.v))

EvalFrom(exp, k, vs, stack) ==
  IF k > Len(exp) THEN FinalPop(stack)
  ELSE LET token == exp[k] IN
    IF IsDigitStr(token) THEN
      EvalFrom(exp, k + 1, vs, Append(stack, IntVal(ParseInt(token))))
    ELSE IF token \in DOMAIN vs THEN
      EvalFrom(exp, k + 1, vs, Append(stack, vs[token]))
    ELSE IF Len(stack) < 2 THEN IndexError
    ELSE PushResult(exp, k, vs, stack,
                    apply_op(stack[Len(stack) - 1], stack[Len(stack)], token))

evaluate_postfix(exp, vs) == EvalFrom(exp, 1, vs, <<>>)

(* ----------------------- is_valid_variable_name ----------------------- *)

IsAlnumName(name) == IsAlnumStr(name)

is_valid_variable_name(name) ==
  /\ Len(name) > 0
  /\ name[1] \in Letters
  /\ \A k \in 2..Len(name) : name[k] \in Digits \cup Letters

(* ---------------------------- process_code ---------------------------- *)

None == <<"None">>

ValueResult(v) == [kind |-> "value", v |-> v, msg |-> NoMsg]
ErrorResult(m) == [kind |-> "error", v |-> NoneVal, msg |-> m]

DivisionByZero == Msg("Division by zero", <<>>)
UndefinedVariable(token) == Msg("Undefined variable", token)
InvalidVariableName(var) == Msg("Invalid variable name:", var)
TooManyValues == Msg("too many values to unpack (expected 2)", <<>>)

\* errors.append(f"Line {line_num}: {m}")
ErrorLine(line_num, m) == [line |-> line_num, msg |-> m]

\* the tuple process_code returns, with the three containers it mutates
Outcome(var, postfix_expr, result, vs, es, us) ==
  [var |-> var, postfix |-> postfix_expr, result |-> result,
   variables |-> vs, errors |-> es, used_vars |-> us]

\* the first token the pre-scan loop faults on, 0 when it finds none
LastUndefined(tokens, vs) ==
  LET bad == {k \in 1..Len(tokens) :
                /\ IsAlnumStr(tokens[k])
                /\ ~IsDigitStr(tokens[k])
                /\ tokens[k] \notin DOMAIN vs}
  IN IF bad = {} THEN 0 ELSE CHOOSE k \in bad : \A m \in bad : k >= m

FirstUndefined(tokens, vs) ==
  LET bad == {k \in 1..Len(tokens) :
                /\ IsAlnumStr(tokens[k])
                /\ ~IsDigitStr(tokens[k])
                /\ tokens[k] \notin DOMAIN vs}
  IN IF bad = {} THEN 0 ELSE CHOOSE k \in bad : \A m \in bad : k <= m

\* variables[var] = value
Bind(vs, var, v) ==
  [k \in DOMAIN vs \cup {var} |-> IF k = var THEN v ELSE vs[k]]

\* except SyntaxError / except Exception of the outer try
OuterFault(line_num, m, vs, es, us) ==
  Outcome(None, <<>>, ErrorResult(m), vs, Append(es, ErrorLine(line_num, m)), us)

\* value if value is not None else "Error: Division by zero"
ResultOf(v) ==
  IF v.t # "none" THEN ValueResult(v) ELSE ErrorResult(DivisionByZero)

\* the handlers of the inner try
InnerFaultSilent(line_num, var, postfix_expr, ev, vs, es, us) ==
  LET m == IF ev.exc = "ZeroDivisionError" THEN DivisionByZero ELSE ev.msg
  IN Outcome(var, postfix_expr, ErrorResult(m), vs, es, us)

InnerFault(line_num, var, postfix_expr, ev, vs, es, us) ==
  LET m == IF ev.exc = "ZeroDivisionError" THEN DivisionByZero ELSE ev.msg
  IN Outcome(var, postfix_expr, ErrorResult(m), vs,
             Append(es, ErrorLine(line_num, m)), us)

\* the inner try of an assignment, ev what evaluate_postfix did
Assigned(line_num, var, postfix_expr, ev, vs, es, us) ==
  IF ev.exc # "none"
  THEN InnerFault(line_num, var, postfix_expr, ev, vs, es, us)
  ELSE Outcome(var, postfix_expr, ResultOf(ev.v),
               Bind(vs, var, ev.v), es, us \cup {var})

\* the inner try of a bare expression, ev what evaluate_postfix did
Evaluated(line_num, postfix_expr, ev, vs, es, us) ==
  IF ev.exc # "none"
  THEN InnerFault(line_num, None, postfix_expr, ev, vs, es, us)
  ELSE Outcome(None, postfix_expr, ResultOf(ev.v), vs, es, us)

AssignmentPath(line_num, code, vs, es, us) ==
  LET parts == Split(code, "=") IN
  IF Len(parts) # 2 THEN OuterFault(line_num, TooManyValues, vs, es, us)
  ELSE
    LET var == Strip(parts[1])
        expr == Strip(parts[2])
    IN
    IF ~is_valid_variable_name(var)
    THEN OuterFault(line_num, InvalidVariableName(var), vs, es, us)
    ELSE
      LET tokens == tokenize(expr)
          u == FirstUndefined(tokens, vs)
      IN
      IF u # 0 THEN
        Outcome(var, <<>>, ErrorResult(UndefinedVariable(tokens[u])), vs,
                Append(es, ErrorLine(line_num, UndefinedVariable(tokens[u]))), us)
      ELSE
        LET cv == infix_to_postfix(expr) IN
        IF cv.exc # "none" THEN OuterFault(line_num, cv.msg, vs, es, us)
        ELSE
          Assigned(line_num, var, cv.out, evaluate_postfix(cv.out, vs),
                   vs, es, us)

ExpressionPath(line_num, code, vs, es, us) ==
  LET tokens == tokenize(code)
      u == FirstUndefined(tokens, vs)
  IN
  IF u # 0 THEN
    Outcome(None, <<>>, ErrorResult(UndefinedVariable(tokens[u])), vs,
            Append(es, ErrorLine(line_num, UndefinedVariable(tokens[u]))), us)
  ELSE
    LET cv == infix_to_postfix(code) IN
    IF cv.exc # "none" THEN OuterFault(line_num, cv.msg, vs, es, us)
    ELSE
      Evaluated(line_num, cv.out, evaluate_postfix(cv.out, vs), vs, es, us)

process_code(line_num, code, vs, es, us) ==
  IF Contains(code, "=")
  THEN AssignmentPath(line_num, code, vs, es, us)
  ELSE ExpressionPath(line_num, code, vs, es, us)

(* ----------------------------- on_process ----------------------------- *)

\* the lines the input text is made of
Lines ==
  {
   <<>>,                                        \* ""
   <<" ">>,                                     \* " "
   <<"x", "=", "2">>,                           \* "x=2"
   <<"y", " ", "=", " ", "x">>,                 \* "y = x"
   <<"x", "=", "4", "/", "0">>,                 \* "x=4/0"
   <<"x", "%", "0">>,                           \* "x%0"
   <<"y", "+", "1">>,                           \* "y+1"
   <<"1", "x", "=", "2">>,                      \* "1x=2"
   <<"x", "=", "y", "=", "1">>,                 \* "x=y=1"
   <<"=", "2">>,                                \* "=2"
   <<"x", "=", "1", "(", "2">>,                 \* "x=1(2"
   <<"2", " ", "3">>,                           \* "2 3"
   <<"y", "=", "2", " ", "3">>,                 \* "y=2 3"
   <<"1", "+", "2", ")">>,                      \* "1+2)"
   <<"x", "=">>,                                \* "x="
   <<"+">>,                                     \* "+"
   <<"y", "/", "0">>,                           \* "y/0"
   <<"x", "=", "y", ")">>,                      \* "x=y)"
   <<"z", "+", "y">>,                           \* "z+y"
   <<"x">>,                                     \* "x"
   <<"x", "=", "x", "-", "3">>,                 \* "x=x-3"
   <<"y", "=", "x", "/", "3">>,                 \* "y=x/3"
   <<"y", "=", "x", "%", "3">>                  \* "y=x%3"
  }

EmptyStore == [k \in {} |-> NoneVal]

\* variables = {}; errors = []; used_vars = set()
NewSessionKeep(vs, es, us) ==
  [variables |-> vs, errors |-> es, used_vars |-> us]

NewSession(vs, es, us) ==
  [variables |-> EmptyStore, errors |-> <<>>, used_vars |-> {}]

\* enumerate(lines, start=1): the number of the line after those in ls
EnumerateNonBlank(ls) ==
  Cardinality({k \in 1..Len(ls) : Strip(ls[k]) # <<>>}) + 1

Enumerate(ls) == Len(ls) + 1

Snapshot(vs, es, us) == [variables |-> vs, errors |-> es, used_vars |-> us]

NoReport == [shown |-> FALSE, used |-> EmptyStore, errors |-> <<>>]

\* what the loop body inserts into the output area for one line
Shown(i, line, o) ==
  [line_num |-> i, line |-> line, var |-> o.var, postfix |-> o.postfix,
   result |-> o.result]

\* an infix expression with the value standard arithmetic gives it
Leaf(tok, v) == [infix |-> tok, val |-> v, prec |-> 3, ops |-> 0]

Init ==
  /\ pc = "idle"
  /\ run = 0
  /\ lines = <<>>
  /\ variables = EmptyStore
  /\ errors = <<>>
  /\ used_vars = {}
  /\ output_area = <<>>
  /\ report = NoReport
  /\ pre = Snapshot(EmptyStore, <<>>, {})
  /\ prevBound = {}
  /\ tree = Leaf(<<"0">>, 0)
  /\ stage = "off"
  /\ conv = Returned(NoneVal)
  /\ evald = Returned(NoneVal)

\* on_process up to the loop: clear the output, start from fresh containers
OnProcess ==
  /\ pc = "idle"
  /\ run < MaxRuns
  /\ LET s == NewSession(variables, errors, used_vars) IN
       /\ variables' = s.variables
       /\ errors' = s.errors
       /\ used_vars' = s.used_vars
       /\ pre' = Snapshot(s.variables, s.errors, s.used_vars)
  /\ prevBound' = prevBound \cup DOMAIN variables
  /\ output_area' = <<>>
  /\ report' = NoReport
  /\ lines' = <<>>
  /\ run' = run + 1
  /\ pc' = "loop"
  /\ UNCHANGED <<tree, stage, conv, evald>>

\* the body of the loop for a line that is not blank, o what process_code
\* returned and left in the containers
LoopBody(i, line, o) ==
  /\ variables' = o.variables
  /\ errors' = o.errors
  /\ used_vars' = o.used_vars
  /\ output_area' = Append(output_area, Shown(i, line, o))

\* one iteration of the loop over enumerate(lines, start=1)
LoopLine(raw) ==
  /\ pc = "loop"
  /\ Len(lines) < MaxLines
  /\ LET i == Enumerate(lines)
         line == Strip(raw)
     IN
       /\ lines' = Append(lines, raw)
       /\ pre' = Snapshot(variables, errors, used_vars)
       /\ IF line # <<>>
          THEN LoopBody(i, line,
                        process_code(i, line, variables, errors, used_vars))
          ELSE UNCHANGED <<variables, errors, used_vars, output_area>>
  /\ UNCHANGED <<pc, run, report, prevBound, tree, stage, conv, evald>>

\* the end of the text: the listing of the used variables and of the errors
Finish ==
  /\ pc = "loop"
  /\ report' = [shown |-> TRUE,
                used |-> [v \in used_vars |-> variables[v]],
                errors |-> errors]
  /\ pc' = "idle"
  /\ UNCHANGED <<run, lines, variables, errors, used_vars, output_area, pre,
                 prevBound, tree, stage, conv, evald>>

Next ==
  \/ OnProcess
  \/ \E raw \in Lines : LoopLine(raw)
  \/ Finish

Spec == Init /\ [][Next]_vars

(* ------------------- the line processed last -------------------------- *)

Processed == Len(lines) > 0
LastNum == Len(lines)
LastLine == Strip(lines[Len(lines)])
LastNonBlank == Processed /\ LastLine # <<>>
Last == output_area[Len(output_area)]

IsAssignment(line) == Contains(line, "=")
CountChar(line, c) == Cardinality({k \in 1..Len(line) : line[k] = c})

FirstEq(line) ==
  CHOOSE k \in 1..Len(line) :
    line[k] = "=" /\ \A j \in 1..(k - 1) : line[j] # "="

TargetText(line) == Strip(SubSeq(line, 1, FirstEq(line) - 1))

ExprText(line) ==
  IF IsAssignment(line)
  THEN Strip(SubSeq(line, FirstEq(line) + 1, Len(line)))
  ELSE line

\* ^[A-Za-z][A-Za-z0-9]*$
WellFormedName(name) ==
  /\ name # <<>>
  /\ Head(name) \in Letters
  /\ \A k \in DOMAIN name : name[k] \in Letters \cup Digits

Rejected(line) ==
  /\ IsAssignment(line)
  /\ CountChar(line, "=") > 1 \/ ~WellFormedName(TargetText(line))

PassesTarget(line) == ~Rejected(line)

IsIdentifier(token) == Head(token) \in Letters

Unbound(tokens, vs) ==
  {k \in 1..Len(tokens) :
     IsIdentifier(tokens[k]) /\ tokens[k] \notin DOMAIN vs}

ReachesConversion(line, vs) ==
  /\ PassesTarget(line)
  /\ Unbound(tokenize(ExprText(line)), vs) = {}

ReachesEvaluation(line, vs) ==
  /\ ReachesConversion(line, vs)
  /\ infix_to_postfix(ExprText(line)).exc = "none"

LastPostfix == infix_to_postfix(ExprText(LastLine)).out

\* the targets of the assignment lines of this run whose outcome is a value
SuccessfulTargets ==
  {output_area[k].var :
     k \in {j \in 1..Len(output_area) :
              /\ IsAssignment(output_area[j].line)
              /\ output_area[j].result.kind = "value"}}

\* the number of values the operand stack holds after the last token of exp,
\* -1 when an operator finds fewer than two
RECURSIVE StackLeft(_, _, _, _)
StackLeft(exp, k, vs, n) ==
  IF k > Len(exp) THEN n
  ELSE IF IsDigitStr(exp[k]) \/ exp[k] \in DOMAIN vs
       THEN StackLeft(exp, k + 1, vs, n + 1)
  ELSE IF n < 2 THEN -1
  ELSE StackLeft(exp, k + 1, vs, n - 1)

\* the evaluation of exp reaches a '/' or '%' whose right operand is zero
RECURSIVE DividesByZero(_, _, _, _)

DividesLater(exp, k, vs, stack, r) ==
  r.exc = "none" /\
  DividesByZero(exp, k + 1, vs, Append(SubSeq(stack, 1, Len(stack) - 2), r.v))

DividesByZero(exp, k, vs, stack) ==
  IF k > Len(exp) THEN FALSE
  ELSE IF IsDigitStr(exp[k])
       THEN DividesByZero(exp, k + 1, vs, Append(stack, IntVal(ParseInt(exp[k]))))
  ELSE IF exp[k] \in DOMAIN vs
       THEN DividesByZero(exp, k + 1, vs, Append(stack, vs[exp[k]]))
  ELSE IF Len(stack) < 2 THEN FALSE
  ELSE LET b == stack[Len(stack)]
           a == stack[Len(stack) - 1]
       IN IF exp[k] \in {<<"/">>, <<"%">>} /\ IsZero(b)
          THEN TRUE
          ELSE DividesLater(exp, k, vs, stack, apply_op(a, b, exp[k]))

\* some ')' of tokens has no '(' before it left to match
UnmatchedClose(tokens) ==
  \E k \in 1..Len(tokens) :
    Cardinality({j \in 1..k : tokens[j] = <<")">>})
      > Cardinality({j \in 1..k : tokens[j] = <<"(">>})

\* the numbers of the lines of ls that are not blank, from the k-th on
RECURSIVE NonBlankFrom(_, _)
NonBlankFrom(ls, k) ==
  IF k > Len(ls) THEN <<>>
  ELSE (IF Strip(ls[k]) # <<>> THEN <<k>> ELSE <<>>) \o NonBlankFrom(ls, k + 1)

(* ------------------------------ claims -------------------------------- *)

\* C1: a name is a key of the Variable Store if and only if an earlier line
\* of the session was an assignment to it whose outcome is a value; a line
\* whose outcome is an error, and a bare expression, leave the store alone
C1_StoreIffSuccessfulAssignment ==
  /\ DOMAIN variables = SuccessfulTargets
  /\ (LastNonBlank /\ (Last.result.kind = "error" \/ ~IsAssignment(LastLine)))
       => variables = pre.variables

\* C2: a line whose evaluation divides or takes a remainder by zero has the
\* outcome "Division by zero", appends exactly that one message, and leaves
\* the store (the target's binding or its absence) as it was
C2_DivisionByZero ==
  (/\ LastNonBlank
   /\ ReachesEvaluation(LastLine, pre.variables)
   /\ DividesByZero(LastPostfix, 1, pre.variables, <<>>))
  => /\ Last.result = ErrorResult(DivisionByZero)
     /\ Last.postfix = LastPostfix
     /\ errors = Append(pre.errors, ErrorLine(LastNum, DivisionByZero))
     /\ variables = pre.variables
     /\ used_vars = pre.used_vars

C2_Witness ==
  /\ LastNonBlank
  /\ ReachesEvaluation(LastLine, pre.variables)
  /\ DividesByZero(LastPostfix, 1, pre.variables, <<>>)
  /\ IsAssignment(LastLine)
  /\ TargetText(LastLine) \in DOMAIN pre.variables
  /\ variables = pre.variables

\* C3: a line that passes the target check and names an unbound identifier
\* gets the undefined-variable error of the first such token, with an empty
\* postfix and an unchanged store, whatever else is wrong with the expression
C3_UndefinedFirst ==
  (/\ LastNonBlank
   /\ PassesTarget(LastLine)
   /\ Unbound(tokenize(ExprText(LastLine)), pre.variables) # {})
  => LET tokens == tokenize(ExprText(LastLine))
         bad == Unbound(tokens, pre.variables)
         first == CHOOSE k \in bad : \A m \in bad : k <= m
     IN /\ Last.result = ErrorResult(UndefinedVariable(tokens[first]))
        /\ Last.postfix = <<>>
        /\ errors = Append(pre.errors,
                           ErrorLine(LastNum, UndefinedVariable(tokens[first])))
        /\ variables = pre.variables
        /\ used_vars = pre.used_vars

C3_Witness ==
  /\ LastNonBlank
  /\ PassesTarget(LastLine)
  /\ Unbound(tokenize(ExprText(LastLine)), pre.variables) # {}
  /\ infix_to_postfix(ExprText(LastLine)).exc = "IndexError"
  /\ Last.result.msg.text = "Undefined variable"

\* C4: an assignment line with more than one '=' or with an ill-formed
\* target is an error with an empty postfix and one message of its line, and
\* changes neither the store nor the used-variable set
C4_RejectedAssignment ==
  (LastNonBlank /\ Rejected(LastLine))
  => /\ Last.result.kind = "error"
     /\ Last.postfix = <<>>
     /\ errors = Append(pre.errors, ErrorLine(LastNum, Last.result.msg))
     /\ variables = pre.variables
     /\ used_vars = pre.used_vars

C4_Witness ==
  /\ LastNonBlank
  /\ Rejected(LastLine)
  /\ CountChar(LastLine, "=") = 1
  /\ TargetText(LastLine) # <<>>
  /\ Last.result = ErrorResult(InvalidVariableName(TargetText(LastLine)))
  /\ pre.variables # EmptyStore

\* C5: the outcome of a line is an error exactly when the call appended one
\* message of that line, and the error list has one entry per error outcome
C5_ErrorIffOneMessage ==
  /\ LastNonBlank =>
       IF Last.result.kind = "error"
       THEN errors = Append(pre.errors, ErrorLine(LastNum, Last.result.msg))
       ELSE errors = pre.errors
  /\ Len(errors) = Cardinality({k \in 1..Len(output_area) :
                                  output_area[k].result.kind = "error"})

\* C7: one outcome per non-blank line, in order, numbered by the position of
\* the line in the text; a blank line changes nothing
C7_OneOutcomePerNonBlankLine ==
  LET idx == NonBlankFrom(lines, 1) IN
  /\ Len(output_area) = Len(idx)
  /\ \A k \in 1..Len(idx) :
       /\ output_area[k].line_num = idx[k]
       /\ output_area[k].line = Strip(lines[idx[k]])
  /\ \A k \in 1..Len(errors) :
       \E j \in 1..Len(output_area) :
         /\ output_area[j].line_num = errors[k].line
         /\ output_area[j].result = ErrorResult(errors[k].msg)
  /\ (Processed /\ LastLine = <<>>) =>
       /\ variables = pre.variables
       /\ errors = pre.errors
       /\ used_vars = pre.used_vars

C7_Witness ==
  /\ Len(lines) = 2
  /\ Strip(lines[1]) = <<>>
  /\ LastNonBlank
  /\ Len(output_area) = 1
  /\ Len(errors) = 1
  /\ errors[1].line = 2

\* C8: a run starts from an empty store, error list and used-variable set: a
\* name bound only in an earlier run is undefined in this one, and the
\* report shows only the errors and the variables of this run
C8_FreshSession ==
  /\ (pc = "loop" /\ lines = <<>>) =>
       /\ variables = EmptyStore
       /\ errors = <<>>
       /\ used_vars = {}
  /\ (/\ LastNonBlank
      /\ PassesTarget(LastLine)
      /\ \E k \in Unbound(tokenize(ExprText(LastLine)), pre.variables) :
           tokenize(ExprText(LastLine))[k] \in prevBound)
     => Last.result.msg.text = "Undefined variable"
  /\ Len(errors) <= Len(output_area)
  /\ DOMAIN variables \subseteq {output_area[k].var : k \in 1..Len(output_area)}
  /\ used_vars \subseteq {output_area[k].var : k \in 1..Len(output_area)}
  /\ report.shown =>
       /\ report.errors = errors
       /\ DOMAIN report.used = used_vars

C8_Witness ==
  /\ run = 2
  /\ LastNonBlank
  /\ PassesTarget(LastLine)
  /\ \E k \in Unbound(tokenize(ExprText(LastLine)), pre.variables) :
       tokenize(ExprText(LastLine))[k] \in prevBound
  /\ Last.result.msg.text = "Undefined variable"

\* C9: evaluation succeeds only with exactly one value left on the stack;
\* otherwise the outcome is an error and an assignment binds nothing
C9_SingleValueRequired ==
  (/\ LastNonBlank
   /\ ReachesEvaluation(LastLine, pre.variables)
   /\ StackLeft(LastPostfix, 1, pre.variables, 0) # 1)
  => /\ Last.result.kind = "error"
     /\ variables = pre.variables

\* C10 as stated: a ')' with no '(' to match raises no fault at conversion
\* time, and "1+2)" converts to 1 2 + and evaluates to 3
C10_UnmatchedCloseIgnored ==
  (/\ LastNonBlank
   /\ ReachesConversion(LastLine, pre.variables)
   /\ UnmatchedClose(tokenize(ExprText(LastLine))))
  => /\ infix_to_postfix(ExprText(LastLine)).exc = "none"
     /\ LastLine = <<"1", "+", "2", ")">> =>
          /\ Last.postfix = <<<<"1">>, <<"2">>, <<"+">>>>
          /\ Last.result = ValueResult(IntVal(3))

\* C10, amended: a ')' with no '(' to match makes the conversion fault on
\* the pop of the empty operator stack; the line is an error with an empty
\* postfix and one message, and the store is unchanged
C10_UnmatchedCloseFaults ==
  (/\ LastNonBlank
   /\ ReachesConversion(LastLine, pre.variables)
   /\ UnmatchedClose(tokenize(ExprText(LastLine))))
  => /\ Last.var = None
     /\ Last.postfix = <<>>
     /\ Last.result = ErrorResult(IndexError.msg)
     /\ errors = Append(pre.errors, ErrorLine(LastNum, IndexError.msg))
     /\ variables = pre.variables
     /\ used_vars = pre.used_vars

C10_Witness ==
  /\ LastNonBlank
  /\ LastLine = <<"1", "+", "2", ")">>
  /\ Last.result = ErrorResult(IndexError.msg)
  /\ Len(errors) = Len(pre.errors) + 1

(* ---------- conversion and evaluation of well-formed expressions ------ *)

Literals == {<<"2">>, <<"3">>, <<"4">>, <<"8">>}
BoundName == <<"x">>
BoundValue == 6
BinOps == {"+", "-", "*", "/"}

Leaves ==
  {Leaf(t, ParseInt(t)) : t \in Literals} \cup {Leaf(BoundName, BoundValue)}

\* v == n for a Python number v and an int n
NumEq(v, n) ==
  \/ v.t = "int" /\ v.n = n
  \/ /\ v.t = "float" /\ v.k = "fin" /\ v.e >= 0
     /\ ShiftL(v.m, v.e) = ToNat(Abs(n))
     /\ (v.m = <<>> \/ v.neg = (n < 0))

OpPrec(op) == IF op \in {"+", "-"} THEN 1 ELSE 2

Paren(e, needed) ==
  IF needed THEN <<"(">> \o e.infix \o <<")">> ELSE e.infix

\* the quotient is taken only where it is exact
Exact(a, b) == b # 0 /\ Abs(a) % Abs(b) = 0

Quot(a, b) ==
  IF (a < 0) = (b < 0) THEN Abs(a) \div Abs(b) ELSE -(Abs(a) \div Abs(b))

OpValue(op, a, b) ==
  CASE op = "+" -> a + b
    [] op = "-" -> a - b
    [] op = "*" -> a * b
    [] op = "/" -> Quot(a, b)

\* a op b, written with the parentheses precedence and left association need
Node(op, a, b) ==
  [infix |-> Paren(a, a.prec < OpPrec(op)) \o <<op>>
             \o Paren(b, b.prec <= OpPrec(op)),
   val |-> OpValue(op, a.val, b.val),
   prec |-> OpPrec(op),
   ops |-> a.ops + b.ops + 1]

\* the operands an expression is extended by: a leaf or one operation
Operands ==
  Leaves \cup
  {Node(t[1], t[2], t[3]) :
     t \in {u \in BinOps \X Leaves \X Leaves :
              u[1] = "/" => Exact(u[2].val, u[3].val)}}

InitExpr ==
  /\ pc = "idle"
  /\ run = 0
  /\ lines = <<>>
  /\ variables = Bind(EmptyStore, BoundName, IntVal(BoundValue))
  /\ errors = <<>>
  /\ used_vars = {BoundName}
  /\ output_area = <<>>
  /\ report = NoReport
  /\ pre = Snapshot(EmptyStore, <<>>, {})
  /\ prevBound = {}
  /\ tree \in Leaves
  /\ stage = "infix"
  /\ conv = Returned(NoneVal)
  /\ evald = Returned(NoneVal)

\* the expression under test grows by one operator and one operand
Grow(op, e, onLeft) ==
  /\ stage = "infix"
  /\ tree.ops + e.ops + 1 <= MaxOps
  /\ LET a == IF onLeft THEN e ELSE tree
         b == IF onLeft THEN tree ELSE e
     IN /\ op = "/" => Exact(a.val, b.val)
        /\ tree' = Node(op, a, b)
  /\ UNCHANGED <<pc, run, lines, variables, errors, used_vars, output_area,
                 report, pre, prevBound, stage, conv, evald>>

\* postfix_expr = infix_to_postfix(expr)
Convert ==
  /\ stage = "infix"
  /\ conv' = infix_to_postfix(tree.infix)
  /\ stage' = "postfix"
  /\ UNCHANGED <<pc, run, lines, variables, errors, used_vars, output_area,
                 report, pre, prevBound, tree, evald>>

\* value = evaluate_postfix(postfix_expr, variables)
Evaluate ==
  /\ stage = "postfix"
  /\ conv.exc = "none"
  /\ evald' = evaluate_postfix(conv.out, variables)
  /\ stage' = "done"
  /\ UNCHANGED <<pc, run, lines, variables, errors, used_vars, output_area,
                 report, pre, prevBound, tree, conv>>

NextExpr ==
  \/ \E op \in BinOps, e \in Operands, onLeft \in BOOLEAN : Grow(op, e, onLeft)
  \/ Convert
  \/ Evaluate

SpecExpr == InitExpr /\ [][NextExpr]_vars

\* C6: the value of the postfix of a well-formed expression is its value
\* under standard precedence, parentheses and left-to-right association
C6_StandardArithmetic ==
  /\ stage # "infix" => conv.exc = "none"
  /\ stage = "done" =>
       /\ evald.exc = "none"
       /\ NumEq(evald.v, tree.val)
  /\ (stage # "infix" /\ tree.infix = <<"2", "+", "3", "*", "4">>) =>
       conv.out = <<<<"2">>, <<"3">>, <<"4">>, <<"*">>, <<"+">>>>

C6_Witness ==
  /\ stage = "done"
  /\ tree.infix = <<"8", "-", "3", "-", "2">>
  /\ evald.v = IntVal(3)

====
